---- MODULE Spec2Model ----
(***************************************************************************)
(* Model of the audio transcription service of src/main.py: the startup   *)
(* hook (lifespan), the POST /transcribe handler (transcribe_audio), the  *)
(* dispatcher (transcribe_with_gigaam) with its asyncio.Semaphore, the    *)
(* segmenter (split_audio) and the duration prober (get_audio_duration).  *)
(*                                                                         *)
(* The handler is a coroutine on a single-threaded event loop.  Its only  *)
(* suspension points are inside transcribe_with_gigaam: the semaphore     *)
(* acquisition when the semaphore is locked, and the await of the engine  *)
(* call running in the executor.  Everything between two suspension       *)
(* points (validation, saving, the blocking subprocess.run calls of the   *)
(* prober and the segmenter, building the response) runs without          *)
(* yielding, so one action of the model is one such run of one request.   *)
(*                                                                         *)
(* Durations are kept in milliseconds (integers); texts, names and        *)
(* content types are sequences of characters.                              *)
(***************************************************************************)
EXTENDS Integers, Sequences, FiniteSets, TLC

(***************************************************************************)
(* Bounds of the model.                                                    *)
(***************************************************************************)
\* number of POST /transcribe requests that may arrive
NumRequests == 2
\* largest number of segment files the external splitter leaves behind
MaxSegments == 2
\* capacity N of the semaphore; main.py:23 sets 4, the model scales it down
\* so that NumRequests requests saturate it
MAX_CONCURRENT_TRANSCRIPTIONS == 1

(***************************************************************************)
(* Program constants.                                                      *)
(***************************************************************************)
\* main.py:19, seconds
MAX_DURATION == 20
\* main.py:270, the minimum field width of "segment_%03d.webm"
PadWidth == 3

Requests == 1..NumRequests

(***************************************************************************)
(* Strings: sequences of one-character strings.                            *)
(***************************************************************************)
UpperCase == <<"A","B","C","D","E","F","G","H","I","J","K","L","M",
               "N","O","P","Q","R","S","T","U","V","W","X","Y","Z">>
LowerCase == <<"a","b","c","d","e","f","g","h","i","j","k","l","m",
               "n","o","p","q","r","s","t","u","v","w","x","y","z">>

\* str.lower() on one character
LowerChar(c) ==
    IF \E k \in DOMAIN UpperCase : UpperCase[k] = c
    THEN LowerCase[CHOOSE k \in DOMAIN UpperCase : UpperCase[k] = c]
    ELSE c

\* str.lower()
lower(s) == [k \in DOMAIN s |-> LowerChar(s[k])]

\* str.startswith(prefix)
startswith(s, prefix) ==
    /\ Len(s) >= Len(prefix)
    /\ SubSeq(s, 1, Len(prefix)) = prefix

\* str.endswith(suffix)
endswith(s, suffix) ==
    /\ Len(s) >= Len(suffix)
    /\ SubSeq(s, Len(s) - Len(suffix) + 1, Len(s)) = suffix

\* An optional string: Python's None, or a str.
None == [none |-> TRUE, s |-> <<>>]
Str(s) == [none |-> FALSE, s |-> s]
\* Python truthiness of an optional string: None and "" are falsy
Truthy(o) == ~o.none /\ o.s # <<>>

AudioPrefix == <<"a","u","d","i","o","/">>
WebmSuffix == <<".","w","e","b","m">>

(***************************************************************************)
(* The uploads the model draws from: a declared content type and a file   *)
(* name, each possibly absent.                                             *)
(***************************************************************************)
ContentTypes ==
    { None,
      Str(<<"a","u","d","i","o","/","o","g","g">>),
      Str(<<"a","u","d","i","o">>),
      Str(<<"A","u","d","i","o","/","x">>),
      Str(<<"t","e","x","t","/","p","l","a","i","n">>) }
FileNames ==
    { None,
      Str(<<>>),
      Str(<<"A",".","W","e","b","M">>),
      Str(<<"w","e","b","m">>),
      Str(<<"a",".","w","e","b","m",".","t","x","t">>) }
Uploads == [content_type : ContentTypes, filename : FileNames]

\* main.py:332-338: the two nested tests that end in HTTPException(400)
InvalidFileTypeNoNesting(file) ==
    \/ ~Truthy(file.content_type)
    \/ ~startswith(file.content_type.s, AudioPrefix)
InvalidFileType(file) ==
    /\ (~Truthy(file.content_type) \/ ~startswith(file.content_type.s, AudioPrefix))
    /\ (~Truthy(file.filename) \/ ~endswith(lower(file.filename.s), WebmSuffix))

(***************************************************************************)
(* File paths.  input.webm is the saved upload; a segment path names the   *)
(* file segments/segment_%03d.webm the splitter wrote for one index.       *)
(***************************************************************************)
NoPath == [file |-> "none", index |-> 0]
InputPath == [file |-> "input.webm", index |-> 0]
SegmentPath(n) == [file |-> "segment", index |-> n]

\* the characters of segment file names, in ascending code point order
Alphabet == <<".","0","1","2","3","4","5","6","7","8","9","_",
              "a","b","c","d","e","f","g","h","i","j","k","l","m",
              "n","o","p","q","r","s","t","u","v","w","x","y","z">>
Ord(c) == CHOOSE k \in DOMAIN Alphabet : Alphabet[k] = c

Min(S) == CHOOSE x \in S : \A y \in S : x <= y

\* Python's < on str: the first differing character decides, a proper
\* prefix is smaller
StrLess(a, b) ==
    LET common == 1..(IF Len(a) < Len(b) THEN Len(a) ELSE Len(b))
        diff == {k \in common : a[k] # b[k]}
    IN  IF diff = {} THEN Len(a) < Len(b)
        ELSE Ord(a[Min(diff)]) < Ord(b[Min(diff)])

\* decimal digits of a natural number
RECURSIVE Digits(_)
Digits(n) ==
    IF n < 10 THEN <<Alphabet[n + 2]>>
    ELSE Digits(n \div 10) \o <<Alphabet[(n % 10) + 2]>>

\* printf %0<width>d: zero-padded to at least width characters
RECURSIVE ZeroPad(_, _)
ZeroPad(digits, width) ==
    IF Len(digits) >= width THEN digits
    ELSE ZeroPad(<<"0">> \o digits, width)

SegmentPrefix == <<"s","e","g","m","e","n","t","_">>

\* main.py:270: the name the splitter gives segment n
SegmentName(n) == SegmentPrefix \o ZeroPad(Digits(n), PadWidth) \o WebmSuffix

\* What the external splitting process did: its exit status and the number
\* of segment files it left in the output directory (numbered from 0;
\* os.listdir gives them in no particular order, here the reverse one).
SplitRuns(counts) ==
    [returncode : {0}, files : counts] \cup [returncode : {1}, files : {0}]

\* main.py:281-288: sorted(os.listdir(output_dir)), filtered by name
SortedListing(indices, names) ==
    SortSeq(indices, LAMBDA a, b : StrLess(names[a], names[b]))

\* the directory listing of main.py:281-288 for the files a run left
ListSegments(run) ==
    LET names == [n \in 0..(run.files - 1) |-> SegmentName(n)]
        listed == SortedListing([k \in 1..run.files |-> run.files - k], names)
        kept == SelectSeq(listed,
                   LAMBDA n : /\ startswith(names[n], SegmentPrefix)
                              /\ endswith(names[n], WebmSuffix))
    IN  [k \in DOMAIN kept |-> SegmentPath(kept[k])]

\* main.py:266-291 split_audio: raises HTTPException(500) on a non-zero
\* exit (check=True), otherwise returns the sorted segment paths
split_audioIgnoringExit(run) ==
    [raised |-> FALSE, segments |-> ListSegments(run)]
split_audio(run) ==
    IF run.returncode # 0
    THEN [raised |-> TRUE, segments |-> <<>>]
    ELSE [raised |-> FALSE, segments |-> ListSegments(run)]

(***************************************************************************)
(* The duration prober, get_audio_duration (main.py:108-264).              *)
(*                                                                         *)
(* A media descriptor says what each external command prints for the file. *)
(* A printed value is a field: Num(ms) parses with float() to ms           *)
(* milliseconds, NA is the text "N/A", Empty is "", Garbage is any other   *)
(* text float() rejects, Null is JSON null and Absent a missing JSON key.  *)
(***************************************************************************)
Num(ms) == [kind |-> "float", ms |-> ms]
NA == [kind |-> "N/A", ms |-> 0]
Empty == [kind |-> "empty", ms |-> 0]
Garbage == [kind |-> "garbage", ms |-> 0]
Null == [kind |-> "null", ms |-> 0]
Absent == [kind |-> "absent", ms |-> 0]

\* a regular expression match carrying the parsed time, or no match
Match(ms) == [matched |-> TRUE, ms |-> ms]
NoMatch == [matched |-> FALSE, ms |-> 0]

\* results of one strategy
Return(ms) == [kind |-> "return", ms |-> ms, exception |-> "", origin |-> ""]
Raise(exception, origin) ==
    [kind |-> "raise", ms |-> 0, exception |-> exception, origin |-> origin]
Nothing == [kind |-> "nothing", ms |-> 0, exception |-> "", origin |-> ""]

\* float(text) inside try/except ValueError, then "if duration > 0: return"
\* (main.py:124-129, 141-146): the usable value of a line of text, if any
UsableLineAnySign(f) == f.kind = "float"
UsableLine(f) == f.kind = "float" /\ f.ms > 0

\* the first usable line of a line-oriented output (main.py:139-146)
FirstUsable(lines) ==
    LET usable == {k \in DOMAIN lines : UsableLine(lines[k])}
    IN  IF usable = {} THEN Nothing ELSE Return(lines[Min(usable)].ms)

\* Method 1, main.py:114-129: ffprobe format=duration, check=True
Method1(media) ==
    IF ~media.ffprobe_installed THEN Raise("FileNotFoundError", "ffprobe")
    ELSE IF media.format.returncode # 0
    THEN Raise("CalledProcessError", "ffprobe format")
    ELSE IF UsableLine(media.format.stdout)
    THEN Return(media.format.stdout.ms)
    ELSE Nothing

\* Method 2, main.py:131-146: ffprobe stream=duration, check=True
Method2(media) ==
    IF media.streams.returncode # 0
    THEN Raise("CalledProcessError", "ffprobe streams")
    ELSE FirstUsable(media.streams.lines)

\* main.py:165-174: the first stream whose duration converts and is > 0;
\* ValueError and TypeError of float() are swallowed
JsonStreams(streams) ==
    FirstUsable(streams)

\* Method 3, main.py:148-176: ffprobe JSON output, check=True.  float() of
\* the format duration is outside any except clause that catches its
\* ValueError or TypeError (only json.JSONDecodeError is caught).
Method3(media) ==
    IF media.json.returncode # 0
    THEN Raise("CalledProcessError", "ffprobe json")
    ELSE IF ~media.json.valid THEN Nothing
    ELSE LET f == media.json.format_duration
         IN  IF f.kind = "null" THEN Raise("TypeError", "float")
             ELSE IF f.kind \in {"N/A", "empty", "garbage"}
             THEN Raise("ValueError", "float")
             ELSE IF f.kind = "float" /\ f.ms > 0 THEN Return(f.ms)
             ELSE JsonStreams(media.json.streams)

\* Method 4, main.py:178-204: ffmpeg decode to null (no check=True), the
\* Duration banner, then the last time= progress stamp
Method4(media) ==
    IF ~media.ffmpeg_installed THEN Raise("FileNotFoundError", "ffmpeg")
    ELSE IF media.decode.banner.matched /\ media.decode.banner.ms > 0
    THEN Return(media.decode.banner.ms)
    ELSE LET times == media.decode.times
         IN  IF times # <<>> /\ times[Len(times)] > 0
             THEN Return(times[Len(times)])
             ELSE Nothing

\* main.py:218, 222: re.search with the time= pattern gives the first
\* progress stamp of the verbose pass
FirstProgress(times) ==
    IF times = <<>> THEN NoMatch ELSE Match(times[1])

\* Method 5, main.py:206-237: the verbose decode; each pattern is tried with
\* re.search (its first match) and the first pattern giving a positive
\* value wins.  banners[k] is what Duration pattern k finds, times are the
\* time= progress stamps of this pass in the order they were printed.
Method5(media) ==
    LET patterns == media.verbose.banners \o <<FirstProgress(media.verbose.times)>>
        found == {k \in DOMAIN patterns :
                    patterns[k].matched /\ patterns[k].ms > 0}
    IN  IF found = {} THEN Nothing
        ELSE Return(patterns[Min(found)].ms)

\* Method 6, main.py:239-251: mediainfo, skipped when not installed
Method6FailingWhenMissing(media) ==
    IF ~media.mediainfo.installed THEN Raise("FileNotFoundError", "mediainfo")
    ELSE IF media.mediainfo.returncode # 0 THEN Nothing
    ELSE IF media.mediainfo.stdout.kind = "float" /\ media.mediainfo.stdout.ms > 0
    THEN Return(media.mediainfo.stdout.ms)
    ELSE Nothing
Method6(media) ==
    IF ~media.mediainfo.installed THEN Nothing
    ELSE IF media.mediainfo.returncode # 0 THEN Nothing
    ELSE IF media.mediainfo.stdout.kind = "float" /\ media.mediainfo.stdout.ms > 0
    THEN Return(media.mediainfo.stdout.ms)
    ELSE Nothing

\* the body of the try block: the strategies in order, then main.py:255
Strategies(media) ==
    LET r1 == Method1(media) r2 == Method2(media) r3 == Method3(media)
        r4 == Method4(media) r5 == Method5(media) r6 == Method6(media)
    IN  IF r1.kind # "nothing" THEN r1
        ELSE IF r2.kind # "nothing" THEN r2
        ELSE IF r3.kind # "nothing" THEN r3
        ELSE IF r4.kind # "nothing" THEN r4
        ELSE IF r5.kind # "nothing" THEN r5
        ELSE IF r6.kind # "nothing" THEN r6
        ELSE Raise("ValueError", "exhausted")

\* main.py:257-261: CalledProcessError is re-raised as ValueError
OnCalledProcessError(result) == Raise("ValueError", result.exception)

\* get_audio_duration with its except clauses: CalledProcessError becomes
\* ValueError (257-261), every other exception is re-raised as it is (262-264)
get_audio_duration(media) ==
    LET result == Strategies(media)
    IN  IF result.kind = "raise" /\ result.exception = "CalledProcessError"
        THEN OnCalledProcessError(result)
        ELSE result

\* A file for which every command runs and reports nothing usable.
SilentMedia ==
    [ffprobe_installed |-> TRUE,
     format |-> [returncode |-> 0, stdout |-> NA],
     streams |-> [returncode |-> 0, lines |-> <<NA>>],
     json |-> [returncode |-> 0, valid |-> TRUE, format_duration |-> Absent,
               streams |-> <<Absent>>],
     ffmpeg_installed |-> TRUE,
     decode |-> [banner |-> NoMatch, times |-> <<>>],
     verbose |-> [banners |-> <<NoMatch, NoMatch, NoMatch>>, times |-> <<>>],
     mediainfo |-> [installed |-> FALSE, returncode |-> 0, stdout |-> Empty]]

\* The files the requests of the model upload: 10 s and exactly 20 s by the
\* format duration, 45 s by the stream duration, one with no duration
\* anywhere, one ffprobe exits non-zero on, and one on a host without ffprobe.
Media ==
    { [SilentMedia EXCEPT !.format.stdout = Num(10000)],
      [SilentMedia EXCEPT !.format.stdout = Num(MAX_DURATION * 1000)],
      [SilentMedia EXCEPT !.streams.lines = <<NA, Num(45000)>>],
      SilentMedia,
      [SilentMedia EXCEPT !.format.returncode = 1],
      [SilentMedia EXCEPT !.ffprobe_installed = FALSE] }

(***************************************************************************)
(* The engine.  model.transcribe is opaque; the stub used here returns a   *)
(* transcript that names the file it was given ("whole" for input.webm,    *)
(* "s<n>" for segment n), so that a dropped, repeated or misplaced result  *)
(* shows in the assembled text.  Whether a call raises is not determined.  *)
(***************************************************************************)
EngineText(path) ==
    IF path.file = "segment" THEN <<"s">> \o Digits(path.index)
    ELSE <<"w","h","o","l","e">>

\* " ".join(texts): the texts in order, one space between neighbours
\* (the halves are joined first to keep the recursion shallow)
RECURSIVE Join(_)
Join(texts) ==
    IF texts = <<>> THEN <<>>
    ELSE IF Len(texts) = 1 THEN texts[1]
    ELSE LET half == Len(texts) \div 2
         IN  Join(SubSeq(texts, 1, half)) \o <<" ">>
                \o Join(SubSeq(texts, half + 1, Len(texts)))

(***************************************************************************)
(* Responses of POST /transcribe.  duration_tag is "number" when the JSON  *)
(* duration is the probed float (in duration, milliseconds), else the      *)
(* string the response carries.                                            *)
(***************************************************************************)
NoResponse ==
    [status |-> 0, detail |-> "", duration_tag |-> "none", duration |-> 0,
     transcription |-> <<>>]
HTTPException(status, detail) ==
    [status |-> status, detail |-> detail, duration_tag |-> "none",
     duration |-> 0, transcription |-> <<>>]
JSONResponse(tag, duration, text) ==
    [status |-> 200, detail |-> "", duration_tag |-> tag,
     duration |-> duration, transcription |-> text]

(***************************************************************************)
(* Responses of GET /health (main.py:98-106): the status code and the JSON *)
(* content.                                                                *)
(***************************************************************************)
GIGAAM_MODEL == "v2_ctc"
NoHealth == [status_code |-> 0, content |-> [status |-> "none"]]
Healthy ==
    [status_code |-> 200,
     content |-> [status |-> "healthy", model |-> GIGAAM_MODEL,
                  model_status |-> "loaded"]]
Unhealthy ==
    [status_code |-> 503,
     content |-> [status |-> "unhealthy", model |-> GIGAAM_MODEL,
                  model_status |-> "not_loaded",
                  error |-> "Transcription model not available"]]

(***************************************************************************)
(* State.                                                                  *)
(***************************************************************************)
VARIABLES
    phase,                     \* "startup", "serving" or "exited"
    model,                     \* the global engine handle: "None" or "loaded"
    TRANSCRIPTION_SEMAPHORE,   \* the global asyncio.Semaphore, or not created
    request,                   \* per request: the coroutine's locals and what it did
    health,                    \* the latest response of GET /health
    executor                   \* engine calls running in worker threads whose
                               \* awaiting coroutine has been cancelled

vars == <<phase, model, TRANSCRIPTION_SEMAPHORE, request, health, executor>>

\* TRANSCRIPTION_SEMAPHORE = None (main.py:24)
NoSemaphore == [created |-> FALSE, value |-> 0, waiters |-> <<>>]
\* asyncio.Semaphore(n): _value and the FIFO of waiting futures; done marks
\* a future whose result has been set and whose coroutine has not yet run
Semaphore(n) == [created |-> TRUE, value |-> n, waiters |-> <<>>]

\* A request that has not arrived.  pc is where the coroutine is suspended:
\*   "idle" (not arrived), "waiting" (in Semaphore.acquire), "engine" (awaiting
\*   run_in_executor) or "done" (responded).
\* site is the call of transcribe_with_gigaam it is suspended in: "direct"
\*   (main.py:399), "segments" (413), "attempt" (364) or "fallback" (383).
\* The fields after response record what the request did, for the properties.
IdleRequest ==
    [pc |-> "idle", site |-> "none", audio_path |-> NoPath,
     temp_dir |-> FALSE, duration |-> 0, segments |-> <<>>,
     transcriptions |-> <<>>, response |-> NoResponse,
     files |-> {},             \* the files in the request's temporary directory
     audio_family |-> FALSE,   \* the upload was declared or named as audio
     responses |-> 0,          \* responses or HTTPExceptions the handler ended with
     workspaces |-> 0,         \* temporary directories created
     probe |-> "none",         \* how get_audio_duration ended
     media |-> SilentMedia,    \* what the external commands print for the upload
     split_calls |-> <<>>,     \* segment_duration of each split_audio call
     split_runs |-> <<>>,      \* what the process of each split_audio call did
     dispatched |-> <<>>,      \* audio_path of each transcribe_with_gigaam call
     engine_log |-> <<>>,      \* each finished model.transcribe call
     outcomes |-> <<>>]        \* how each finished transcribe_with_gigaam call ended

Init ==
    /\ phase = "startup"
    /\ model = "None"
    /\ TRANSCRIPTION_SEMAPHORE = NoSemaphore
    /\ request = [r \in Requests |-> IdleRequest]
    /\ health = NoHealth
    /\ executor = 0

(***************************************************************************)
(* lifespan, main.py:47-70.  loaded: gigaam.load_model returned;           *)
(* fail_without_model: the FAIL_WITHOUT_MODEL setting of main.py:27.       *)
(***************************************************************************)
lifespan(loaded, fail_without_model) ==
    /\ phase = "startup"
    /\ IF loaded
       THEN /\ model' = "loaded"
            /\ TRANSCRIPTION_SEMAPHORE' = Semaphore(MAX_CONCURRENT_TRANSCRIPTIONS)
            /\ phase' = "serving"
       ELSE IF fail_without_model
       THEN /\ phase' = "exited"
            /\ UNCHANGED <<model, TRANSCRIPTION_SEMAPHORE>>
       ELSE /\ model' = "None"
            /\ TRANSCRIPTION_SEMAPHORE' = Semaphore(MAX_CONCURRENT_TRANSCRIPTIONS)
            /\ phase' = "serving"
    /\ UNCHANGED <<request, health, executor>>

(***************************************************************************)
(* health_check, main.py:98-106: GET /health, served once startup is over. *)
(***************************************************************************)
health_checkAlwaysHealthy ==
    /\ phase = "serving"
    /\ health' = Healthy
    /\ UNCHANGED <<phase, model, TRANSCRIPTION_SEMAPHORE, request, executor>>
health_check ==
    /\ phase = "serving"
    /\ health' = IF model = "None" THEN Unhealthy ELSE Healthy
    /\ UNCHANGED <<phase, model, TRANSCRIPTION_SEMAPHORE, request, executor>>

(***************************************************************************)
(* The dispatcher, transcribe_with_gigaam (main.py:293-320), and the       *)
(* semaphore (asyncio.Semaphore of CPython 3.11 and later: release hands   *)
(* the unit to the first waiting future, and acquire queues behind any     *)
(* waiter).  A context c is the request's record rq and the semaphore sem  *)
(* as one run of the coroutine changes them.                               *)
(***************************************************************************)
\* Semaphore.locked()
lockedIgnoringValue(sem) == FALSE
locked(sem) == sem.value = 0 \/ sem.waiters # <<>>

\* Semaphore._wake_up_next(): the first waiter whose future is not done
\* takes a unit and its future is set
wake_up_nextNobody(sem) == sem
wake_up_next(sem) ==
    LET pending == {k \in DOMAIN sem.waiters : ~sem.waiters[k].done}
    IN  IF pending = {} THEN sem
        ELSE [sem EXCEPT !.value = @ - 1, !.waiters[Min(pending)].done = TRUE]

\* Semaphore.release()
releaseLost(sem) == sem
release(sem) == wake_up_next([sem EXCEPT !.value = @ + 1])

\* main.py:307-315 up to the first suspension: "async with" acquires at once
\* when the semaphore is not locked and the engine call is handed to the
\* executor; otherwise the coroutine queues a future and waits
acquire(c, r, path, site) ==
    IF ~locked(c.sem)
    THEN [rq |-> [c.rq EXCEPT !.pc = "engine", !.site = site, !.audio_path = path],
          sem |-> [c.sem EXCEPT !.value = @ - 1]]
    ELSE [rq |-> [c.rq EXCEPT !.pc = "waiting", !.site = site, !.audio_path = path],
          sem |-> [c.sem EXCEPT !.waiters = Append(@, [request |-> r, done |-> FALSE])]]

\* main.py:297-303: the two checks before the semaphore is touched
preconditionNoModelCheck(sem) ==
    IF ~sem.created
    THEN HTTPException(500, "Service not properly initialized")
    ELSE NoResponse
precondition(sem) ==
    IF model = "None"
    THEN HTTPException(503, "Transcription model not available")
    ELSE IF ~sem.created
    THEN HTTPException(500, "Service not properly initialized")
    ELSE NoResponse

(***************************************************************************)
(* The handler, transcribe_audio (main.py:322-431).                        *)
(***************************************************************************)
\* leaving "with tempfile.TemporaryDirectory()" with a response or an
\* HTTPException: the workspace is removed with everything in it
respondKeepWorkspace(c, response) ==
    [c EXCEPT !.rq.pc = "done", !.rq.site = "none", !.rq.audio_path = NoPath,
              !.rq.response = response, !.rq.responses = @ + 1]
respond(c, response) ==
    [c EXCEPT !.rq.pc = "done", !.rq.site = "none", !.rq.audio_path = NoPath,
              !.rq.temp_dir = FALSE, !.rq.files = {},
              !.rq.response = response, !.rq.responses = @ + 1]

\* main.py:396
IsShortStrict(duration) == duration < MAX_DURATION * 1000
IsShort(duration) == duration <= MAX_DURATION * 1000

\* main.py:366-370
DirectAttemptSegmentedTag(transcription) ==
    JSONResponse("unknown (segmented)", 0, transcription)
DirectAttemptResponse(transcription) ==
    JSONResponse("unknown", 0, transcription)

\* main.py:386-392
FallbackResponse(transcriptions) ==
    JSONResponse("unknown (segmented)", 0, Join(transcriptions))

\* main.py:416-424
FinalResponse(duration, transcriptions) ==
    JSONResponse("number", duration, Join(transcriptions))

RECURSIVE transcribe_with_gigaam(_, _, _, _, _)

\* how one call of transcribe_with_gigaam(path) ended: status 200 when it
\* returned a text, else the HTTPException it raised
Outcome(path, result) ==
    [audio_path |-> path, status |-> result.status, detail |-> result.detail]

\* the loops of main.py:381-384 and 411-414 from the next segment on, then
\* the response that follows the loop
NextSegmentAhead(c, r, site, run) ==
    LET k == Len(c.rq.transcriptions)
        c1 == transcribe_with_gigaam(c, r, c.rq.segments[k + 1], site, run)
    IN  IF k >= Len(c.rq.segments)
        THEN IF site = "fallback"
             THEN respond(c, FallbackResponse(c.rq.transcriptions))
             ELSE respond(c, FinalResponse(c.rq.duration, c.rq.transcriptions))
        ELSE IF c1.rq.pc \in {"waiting", "engine"} /\ k + 1 < Len(c.rq.segments)
        THEN [c1 EXCEPT !.rq.dispatched = Append(@, c.rq.segments[k + 2])]
        ELSE c1
NextSegment(c, r, site, run) ==
    LET k == Len(c.rq.transcriptions)
    IN  IF k < Len(c.rq.segments)
        THEN transcribe_with_gigaam(c, r, c.rq.segments[k + 1], site, run)
        ELSE IF site = "fallback"
        THEN respond(c, FallbackResponse(c.rq.transcriptions))
        ELSE respond(c, FinalResponse(c.rq.duration, c.rq.transcriptions))

\* main.py:404-414 and 375-384: split with MAX_DURATION, then the loop.
\* split_audio's HTTPException leaves through "except HTTPException: raise".
Segmenting(c, r, site, run) ==
    LET split == split_audio(run)
        c1 == [c EXCEPT !.rq.split_calls = Append(@, MAX_DURATION),
                        !.rq.split_runs = Append(@, run),
                        !.rq.files = @ \cup {SegmentPath(n) : n \in 0..(run.files - 1)}]
    IN  IF split.raised
        THEN respond(c1, HTTPException(500, "Error splitting audio"))
        ELSE NextSegment([c1 EXCEPT !.rq.segments = split.segments,
                                    !.rq.transcriptions = <<>>],
                         r, site, run)

\* What the handler does when transcribe_with_gigaam raises at a call site:
\* the direct attempt catches every Exception (main.py:371) and falls back
\* to splitting; at the other sites the HTTPException ends the request.
OnDispatcherErrorSkip(c, r, site, error, run) ==
    IF site = "attempt" THEN Segmenting(c, r, "fallback", run)
    ELSE IF site = "direct" THEN respond(c, error)
    ELSE NextSegment([c EXCEPT !.rq.transcriptions = Append(@, <<>>)], r, site, run)
OnDispatcherError(c, r, site, error, run) ==
    IF site = "attempt" THEN Segmenting(c, r, "fallback", run)
    ELSE respond(c, error)

\* What the handler does with the text transcribe_with_gigaam returns.
OnDispatcherResult(c, r, site, transcription, run) ==
    IF site = "attempt" THEN respond(c, DirectAttemptResponse(transcription))
    ELSE IF site = "direct"
    THEN respond(c, FinalResponse(c.rq.duration, <<transcription>>))
    ELSE NextSegment([c EXCEPT !.rq.transcriptions = Append(@, transcription)],
                     r, site, run)

\* a call of transcribe_with_gigaam(path) up to its first suspension
transcribe_with_gigaamAcquireFirst(c, r, path, site, run) ==
    LET c1 == [c EXCEPT !.rq.dispatched = Append(@, path)]
        failed == precondition(c1.sem)
    IN  IF failed.status # 0
        THEN OnDispatcherError(
                [c1 EXCEPT !.sem.value = @ - 1,
                           !.rq.outcomes = Append(@, Outcome(path, failed))],
                r, site, failed, run)
        ELSE acquire(c1, r, path, site)
transcribe_with_gigaam(c, r, path, site, run) ==
    LET c1 == [c EXCEPT !.rq.dispatched = Append(@, path)]
        failed == precondition(c1.sem)
    IN  IF failed.status # 0
        THEN OnDispatcherError(
                [c1 EXCEPT !.rq.outcomes = Append(@, Outcome(path, failed))],
                r, site, failed, run)
        ELSE acquire(c1, r, path, site)

\* main.py:318-320: what transcribe_with_gigaam raises for an exception of
\* the engine call
TranscriptionError == HTTPException(500, "Transcription error")

\* main.py:316-320, after "async with" has been left: an exception of the
\* engine call ends the call of transcribe_with_gigaam with
\* TranscriptionError, which the handler then sees at the call site
OnEngineRaiseRetry(c, r, site, run) ==
    acquire(c, r, c.rq.audio_path, site)
OnEngineRaise(c, r, site, run) ==
    OnDispatcherError(
        [c EXCEPT !.rq.outcomes = Append(@, Outcome(c.rq.audio_path, TranscriptionError))],
        r, site, TranscriptionError, run)

\* main.py:316-317: the engine's text is returned to the call site
OnEngineReturn(c, r, site, run) ==
    OnDispatcherResult(
        [c EXCEPT !.rq.outcomes =
            Append(@, Outcome(c.rq.audio_path, [status |-> 200, detail |-> ""]))],
        r, site, EngineText(c.rq.audio_path), run)

\* main.py:352-414 once the duration is known or the prober has raised
AfterProbe(c, r, probe, run) ==
    IF probe.kind = "return"
    THEN LET c1 == [c EXCEPT !.rq.duration = probe.ms, !.rq.probe = "returned"]
         IN  IF IsShort(probe.ms)
             THEN transcribe_with_gigaam(c1, r, InputPath, "direct", run)
             ELSE Segmenting(c1, r, "segments", run)
    ELSE IF probe.exception = "ValueError"
    THEN transcribe_with_gigaam([c EXCEPT !.rq.probe = probe.origin],
                                r, InputPath, "attempt", run)
    ELSE respond([c EXCEPT !.rq.probe = probe.exception],
                 HTTPException(500, "Processing error"))

\* transcribe_audio from the start of the handler to its first suspension.
\* saved: copying the upload into the workspace succeeded (when it did not,
\* the partly written input.webm is there all the same).
transcribe_audio(c, r, file, saved, media, run) ==
    IF InvalidFileType(file)
    THEN respond(c, HTTPException(400, "Only audio files"))
    ELSE LET c1 == [c EXCEPT !.rq.temp_dir = TRUE, !.rq.workspaces = @ + 1,
                             !.rq.files = {InputPath}]
         IN  IF ~saved
             THEN respond(c1, HTTPException(500, "Error saving file"))
             ELSE AfterProbe([c1 EXCEPT !.rq.media = media],
                             r, get_audio_duration(media), run)

(***************************************************************************)
(* What the upload claims to be, as the properties speak of it: a declared *)
(* content type of the audio family, or a file name with the recognized    *)
(* audio extension .webm (in any letter case).                             *)
(***************************************************************************)
AudioFamily(file) ==
    \/ /\ ~file.content_type.none
       /\ startswith(file.content_type.s, AudioPrefix)
    \/ /\ ~file.filename.none
       /\ endswith(lower(file.filename.s), WebmSuffix)

(***************************************************************************)
(* Actions.                                                                *)
(***************************************************************************)
\* POST /transcribe arrives for request r and runs to its first suspension
\* or to its response.  Requests are numbered in the order they arrive.
Arrive(r, file, saved, media, run) ==
    /\ phase = "serving"
    /\ request[r].pc = "idle"
    /\ \A earlier \in 1..(r - 1) : request[earlier].pc # "idle"
    /\ LET c0 == [rq |-> [request[r] EXCEPT !.audio_family = AudioFamily(file)],
                  sem |-> TRANSCRIPTION_SEMAPHORE]
           c == transcribe_audio(c0, r, file, saved, media, run)
       IN  /\ request' = [request EXCEPT ![r] = c.rq]
           /\ TRANSCRIPTION_SEMAPHORE' = c.sem
    /\ UNCHANGED <<phase, model, health, executor>>

\* The future of waiting request r has been set: the coroutine resumes in
\* Semaphore.acquire, leaves the queue and hands the engine call to the
\* executor (main.py:307-315).
Resume(r) ==
    /\ request[r].pc = "waiting"
    /\ \E k \in DOMAIN TRANSCRIPTION_SEMAPHORE.waiters :
          /\ TRANSCRIPTION_SEMAPHORE.waiters[k] = [request |-> r, done |-> TRUE]
          /\ LET left == [TRANSCRIPTION_SEMAPHORE EXCEPT !.waiters =
                            SubSeq(@, 1, k - 1) \o SubSeq(@, k + 1, Len(@))]
             IN  TRANSCRIPTION_SEMAPHORE' =
                    IF left.value > 0 THEN wake_up_next(left) ELSE left
    /\ request' = [request EXCEPT ![r].pc = "engine"]
    /\ UNCHANGED <<phase, model, health, executor>>

\* The engine call of request r ends in the executor, returning its text or
\* raising; the coroutine resumes, leaves "async with" (release), and runs
\* on to its next suspension or to its response (main.py:316-320, then the
\* handler).
EngineReturns(r, raised, run) ==
    /\ request[r].pc = "engine"
    /\ LET rq == request[r]
           c0 == [rq |-> [rq EXCEPT !.engine_log =
                             Append(@, [audio_path |-> rq.audio_path, raised |-> raised])],
                  sem |-> release(TRANSCRIPTION_SEMAPHORE)]
           c == IF raised
                THEN OnEngineRaise(c0, r, rq.site, run)
                ELSE OnEngineReturn(c0, r, rq.site, run)
       IN  /\ request' = [request EXCEPT ![r] = c.rq]
           /\ TRANSCRIPTION_SEMAPHORE' = c.sem
    /\ UNCHANGED <<phase, model, health, executor>>

\* an upload that is accepted, by its content type and by its name
AudioUpload ==
    [content_type |-> Str(<<"a","u","d","i","o","/","o","g","g">>),
     filename |-> Str(<<"A",".","W","e","b","M">>)]

\* The inputs of Arrive.  An input the run never reads is fixed to one
\* value: saved is read only for an accepted upload, media only once the
\* upload is saved, and run only where the run can reach split_audio.
\* After validation the handler does not look at the upload's content type
\* or name again, so the accepted uploads other than AudioUpload come with
\* one saved file only.
SplitRunInputs == SplitRuns(0..MaxSegments)
DefaultRun == [returncode |-> 0, files |-> 0]
ReadByArrive(a) ==
    LET accepted == ~InvalidFileType(a.file)
        probed == accepted /\ a.saved
        probe == get_audio_duration(a.media)
        may_split == /\ probed
                     /\ \/ probe.kind = "return" /\ ~IsShort(probe.ms)
                        \/ probe.kind = "raise" /\ probe.exception = "ValueError"
    IN  /\ accepted \/ a.saved
        /\ probed \/ a.media = SilentMedia
        /\ may_split \/ a.run = DefaultRun
        /\ a.file = AudioUpload
              \/ (a.saved /\ a.media = SilentMedia /\ a.run = DefaultRun)
ArriveInputs ==
    {[file |-> f, saved |-> s, media |-> m, run |-> x] :
        <<f, s, m, x>> \in
            {t \in Uploads \X BOOLEAN \X Media \X SplitRunInputs :
                ReadByArrive([file |-> t[1], saved |-> t[2], media |-> t[3],
                              run |-> t[4]])}}

\* The inputs of EngineReturns: run is read only when the direct attempt fails.
EngineReturnInputs(r) ==
    {e \in [raised : BOOLEAN, run : SplitRunInputs] :
        (e.raised /\ request[r].site = "attempt") \/ e.run = DefaultRun}

\* Arrive with every input it may read
ArriveSome(r) ==
    /\ phase = "serving"
    /\ request[r].pc = "idle"
    /\ \A earlier \in 1..(r - 1) : request[earlier].pc # "idle"
    /\ \E a \in ArriveInputs : Arrive(r, a.file, a.saved, a.media, a.run)

\* EngineReturns with every input it may read
EngineReturnsSome(r) ==
    /\ request[r].pc = "engine"
    /\ \E e \in EngineReturnInputs(r) : EngineReturns(r, e.raised, e.run)

Next ==
    \/ \E loaded \in BOOLEAN, fail_without_model \in BOOLEAN :
          lifespan(loaded, fail_without_model)
    \/ \E r \in Requests : ArriveSome(r)
    \/ \E r \in Requests : Resume(r)
    \/ \E r \in Requests : EngineReturnsSome(r)

Spec == Init /\ [][Next]_vars

(***************************************************************************)
(* The service under fair scheduling, with one input for every path of the *)
(* handler: a rejected upload; an accepted one that cannot be saved; files *)
(* of MAX_DURATION seconds, of 45 seconds and of unknown duration; a host  *)
(* without ffprobe; and a splitter that fails, that leaves no segment, or  *)
(* that leaves MaxSegments segments.                                       *)
(***************************************************************************)
FullRun == [returncode |-> 0, files |-> MaxSegments]
FailedRun == [returncode |-> 1, files |-> 0]
PathRuns == {DefaultRun, FullRun, FailedRun}
PathMedia ==
    { [SilentMedia EXCEPT !.format.stdout = Num(MAX_DURATION * 1000)],
      [SilentMedia EXCEPT !.streams.lines = <<NA, Num(45000)>>],
      SilentMedia,
      [SilentMedia EXCEPT !.ffprobe_installed = FALSE] }
PathInputs ==
    {a \in ArriveInputs :
        /\ a.file \in {AudioUpload, [content_type |-> None, filename |-> None]}
        /\ a.media \in PathMedia
        /\ a.run \in PathRuns}

ArrivePath(r) ==
    /\ phase = "serving"
    /\ request[r].pc = "idle"
    /\ \A earlier \in 1..(r - 1) : request[earlier].pc # "idle"
    /\ \E a \in PathInputs : Arrive(r, a.file, a.saved, a.media, a.run)

EngineReturnsPath(r) ==
    /\ request[r].pc = "engine"
    /\ \E e \in {x \in EngineReturnInputs(r) : x.run \in PathRuns} :
          EngineReturns(r, e.raised, e.run)

NextPath ==
    \/ \E loaded \in BOOLEAN, fail_without_model \in BOOLEAN :
          lifespan(loaded, fail_without_model)
    \/ \E r \in Requests : ArrivePath(r)
    \/ \E r \in Requests : Resume(r)
    \/ \E r \in Requests : EngineReturnsPath(r)

\* Scheduling: the event loop runs every coroutine whose future has been
\* set (a woken waiter resumes), and every engine call handed to the
\* executor ends, by returning or by raising.
Fairness ==
    \A r \in Requests : WF_vars(Resume(r)) /\ WF_vars(EngineReturnsPath(r))

SpecFair == Init /\ [][NextPath]_vars /\ Fairness

(***************************************************************************)
(* The service with a splitting process that may exit non-zero after it    *)
(* has written segment files: uploads that reach split_audio on the normal *)
(* path (45 seconds) and on the fallback path (no duration found), and     *)
(* every exit status with every number of files left behind.               *)
(***************************************************************************)
LeftoverRuns == [returncode : {0, 1}, files : 0..MaxSegments]
SplitMedia ==
    { [SilentMedia EXCEPT !.streams.lines = <<NA, Num(45000)>>],
      SilentMedia }

ArriveSplit(r) ==
    /\ phase = "serving"
    /\ request[r].pc = "idle"
    /\ \A earlier \in 1..(r - 1) : request[earlier].pc # "idle"
    /\ \E media \in SplitMedia, run \in LeftoverRuns :
          /\ media # SilentMedia \/ model = "None" \/ run = DefaultRun
          /\ Arrive(r, AudioUpload, TRUE, media, run)

EngineReturnsSplit(r) ==
    /\ request[r].pc = "engine"
    /\ \E raised \in BOOLEAN, run \in LeftoverRuns :
          /\ (raised /\ request[r].site = "attempt") \/ run = DefaultRun
          /\ EngineReturns(r, raised, run)

NextSplit ==
    \/ \E loaded \in BOOLEAN, fail_without_model \in BOOLEAN :
          lifespan(loaded, fail_without_model)
    \/ \E r \in Requests : ArriveSplit(r)
    \/ \E r \in Requests : Resume(r)
    \/ \E r \in Requests : EngineReturnsSplit(r)

SpecSplit == Init /\ [][NextSplit]_vars

(***************************************************************************)
(* The prober on its own: one request with an accepted, saved upload, and  *)
(* every combination of what two of the six external commands print for    *)
(* it, the other commands reporting nothing.  Distinct values tell the     *)
(* strategies apart.                                                       *)
(***************************************************************************)
\* one line of ffprobe's csv output
Lines == {NA, Empty, Garbage, Num(0), Num(10000), Num(45000)}

\* main.py:119
FormatOutputs ==
    [returncode : {0}, stdout : Lines] \cup {[returncode |-> 1, stdout |-> Empty]}

\* main.py:136: one line per stream
StreamOutputs ==
    {[returncode |-> 0, lines |-> <<a>>] : a \in Lines}
    \cup {[returncode |-> 0, lines |-> <<a, b>>] :
             a, b \in {NA, Num(0), Num(11000), Num(46000)}}
    \cup {[returncode |-> 1, lines |-> <<>>]}

\* main.py:153-157
JsonOutputs ==
    {[returncode |-> 0, valid |-> TRUE, format_duration |-> f, streams |-> <<Absent>>] :
        f \in {Absent, Null, NA, Garbage, Num(0), Num(12000)}}
    \cup {[returncode |-> 0, valid |-> TRUE, format_duration |-> Absent,
            streams |-> <<a, b>>] :
             a, b \in {Absent, Null, Garbage, Num(13000), Num(47000)}}
    \cup {[returncode |-> 0, valid |-> FALSE, format_duration |-> Absent,
            streams |-> <<>>],
          [returncode |-> 1, valid |-> FALSE, format_duration |-> Absent,
            streams |-> <<>>]}

\* main.py:183-184: stderr of the decode pass
DecodeOutputs ==
    [banner : {NoMatch, Match(0), Match(14000)},
     times : {<<>>, <<0>>, <<5000, 0>>, <<5000, 48000>>}]

\* main.py:211: stderr of the verbose decode pass
VerboseOutputs ==
    [banners : {<<NoMatch, NoMatch, NoMatch>>, <<Match(0), NoMatch, NoMatch>>,
                <<NoMatch, Match(15000), NoMatch>>,
                <<NoMatch, NoMatch, Match(16000)>>},
     times : {<<>>, <<0, 49000>>, <<6000, 49000>>}]

\* main.py:242-245: mediainfo prints whole milliseconds
MediaInfoOutputs ==
    {[installed |-> FALSE, returncode |-> 0, stdout |-> Empty]}
    \cup [installed : {TRUE}, returncode : {0, 1},
          stdout : {Empty, Garbage, Num(0), Num(17000)}]

Commands == {"format", "streams", "json", "decode", "verbose", "mediainfo"}

Outputs(command) ==
    CASE command = "format" -> FormatOutputs
      [] command = "streams" -> StreamOutputs
      [] command = "json" -> JsonOutputs
      [] command = "decode" -> DecodeOutputs
      [] command = "verbose" -> VerboseOutputs
      [] command = "mediainfo" -> MediaInfoOutputs

ProbeMedia ==
    UNION {{[SilentMedia EXCEPT ![p[1]] = v1, ![p[2]] = v2] :
               v1 \in Outputs(p[1]), v2 \in Outputs(p[2])} :
           p \in Commands \X Commands}
    \cup {[SilentMedia EXCEPT !.ffprobe_installed = FALSE],
          [SilentMedia EXCEPT !.ffmpeg_installed = FALSE]}

ArriveProbe(r) ==
    /\ r = 1
    /\ phase = "serving"
    /\ request[r].pc = "idle"
    /\ \E media \in ProbeMedia : Arrive(r, AudioUpload, TRUE, media, FullRun)

EngineReturnsProbe(r) ==
    /\ request[r].pc = "engine"
    /\ \E raised \in BOOLEAN : EngineReturns(r, raised, FullRun)

NextProbe ==
    \/ \E loaded \in BOOLEAN, fail_without_model \in BOOLEAN :
          lifespan(loaded, fail_without_model)
    \/ \E r \in Requests : ArriveProbe(r)
    \/ \E r \in Requests : EngineReturnsProbe(r)

SpecProbe == Init /\ [][NextProbe]_vars

(***************************************************************************)
(* GET /health next to one POST /transcribe request: /health may be asked  *)
(* at any moment once startup is over, before, while and after the request *)
(* calls the dispatcher.                                                   *)
(***************************************************************************)
NextHealth ==
    \/ \E loaded \in BOOLEAN, fail_without_model \in BOOLEAN :
          lifespan(loaded, fail_without_model)
    \/ health_check
    \/ ArriveSome(1)
    \/ EngineReturnsSome(1)

SpecHealth == Init /\ [][NextHealth]_vars

(***************************************************************************)
(* Cancellation.  The task running the handler of request r is cancelled   *)
(* (Task.cancel(), as a server does for a request it gives up) while the   *)
(* coroutine awaits the engine call of main.py:311-315.  CancelledError is *)
(* raised at that await: "async with" is left, which releases the          *)
(* semaphore (307); CancelledError is not an Exception, so neither         *)
(* main.py:318 nor 371, 426 or 429 catches it; the TemporaryDirectory      *)
(* block is left and the task ends without a response.  The function       *)
(* running in the executor's thread cannot be interrupted: it runs on to   *)
(* its end, counted in executor.                                           *)
(***************************************************************************)
Cancel(r) ==
    /\ request[r].pc = "engine"
    /\ request' = [request EXCEPT ![r].pc = "cancelled", ![r].site = "none",
                                  ![r].audio_path = NoPath,
                                  ![r].temp_dir = FALSE, ![r].files = {}]
    /\ TRANSCRIPTION_SEMAPHORE' = release(TRANSCRIPTION_SEMAPHORE)
    /\ executor' = executor + 1
    /\ UNCHANGED <<phase, model, health>>

\* an engine call whose coroutine was cancelled ends in its worker thread;
\* nobody awaits its result
AbandonedCallEnds ==
    /\ executor > 0
    /\ executor' = executor - 1
    /\ UNCHANGED <<phase, model, TRANSCRIPTION_SEMAPHORE, request, health>>

NextCancel ==
    \/ Next
    \/ \E r \in Requests : Cancel(r)
    \/ AbandonedCallEnds

SpecCancel == Init /\ [][NextCancel]_vars

(***************************************************************************)
(* A single request on a file long enough to be split into more segments   *)
(* than PadWidth digits can number: 10^PadWidth + 1 segments of            *)
(* MAX_DURATION seconds.  The request is the only one, the upload is       *)
(* accepted and saved, and the file is probed either by its format         *)
(* duration or not at all.                                                 *)
(***************************************************************************)
RECURSIVE Pow10(_)
Pow10(n) == IF n = 0 THEN 1 ELSE 10 * Pow10(n - 1)

LongFiles == Pow10(PadWidth) + 1
LongRun == [returncode |-> 0, files |-> LongFiles]
LongMedia == [SilentMedia EXCEPT !.format.stdout = Num(LongFiles * MAX_DURATION * 1000)]
NextLong ==
    \/ lifespan(TRUE, TRUE)
    \/ \E media \in {LongMedia, SilentMedia} :
          Arrive(1, AudioUpload, TRUE, media, LongRun)
    \/ \E raised \in BOOLEAN : EngineReturns(1, raised, LongRun)

SpecLong == Init /\ [][NextLong]_vars

(***************************************************************************)
(* Properties.                                                             *)
(***************************************************************************)
Responded(r) == request[r].pc = "done"
Arrived(r) == request[r].pc # "idle"

\* the requests whose engine call is in the executor
InEngine == {r \in Requests : request[r].pc = "engine"}

\* segment paths 0..n-1 in ascending index order
Ascending(n) == [k \in 1..n |-> SegmentPath(k - 1)]

\* the finished engine call number k of request r raised
Raised(r, k) == request[r].engine_log[k].raised

\* C1: at every moment at most MAX_CONCURRENT_TRANSCRIPTIONS engine calls
\* (model.transcribe in the executor) are in progress, however many
\* requests have arrived.
C1_EngineCallsBounded ==
    Cardinality(InEngine) <= MAX_CONCURRENT_TRANSCRIPTIONS

\* C1 witness: the semaphore is exhausted by running engine calls while
\* another request is queued on it.
C1_Witness ==
    /\ Cardinality(InEngine) = MAX_CONCURRENT_TRANSCRIPTIONS
    /\ \E r \in Requests : request[r].pc = "waiting"

\* C2 (as claimed): with the engine not loaded, a request whose upload was
\* accepted and probed (duration returned, or no duration found) ends with
\* 503 and never calls split_audio.
C2_UnavailableWithoutSegmenter ==
    \A r \in Requests :
        (/\ model = "None"
         /\ Responded(r)
         /\ request[r].probe \in {"returned", "exhausted"})
        => /\ request[r].response.status = 503
           /\ request[r].split_calls = <<>>

\* C3: a request is rejected with 400 exactly when its upload neither
\* declares an audio/ content type nor carries the .webm extension, and a
\* rejected request has created no workspace, run no prober or splitter
\* and called neither the dispatcher nor the engine.
C3_AcceptedIffAudio ==
    \A r \in Requests :
        Arrived(r) =>
            /\ request[r].audio_family
                   <=> ~(Responded(r) /\ request[r].response.status = 400)
            /\ (Responded(r) /\ request[r].response.status = 400)
                   => /\ request[r].workspaces = 0
                      /\ request[r].probe = "none"
                      /\ request[r].split_calls = <<>>
                      /\ request[r].dispatched = <<>>
                      /\ request[r].engine_log = <<>>

\* C3 witness: one request rejected with 400 and another one accepted.
C3_Witness ==
    \E r, q \in Requests :
        /\ Responded(r) /\ request[r].response.status = 400
        /\ Arrived(q) /\ request[q].audio_family /\ request[q].workspaces = 1

\* C4: once the prober has returned a duration <= MAX_DURATION, the request
\* has called the dispatcher exactly once, on input.webm, and never
\* split_audio; it responds 200 with that duration and the engine's text
\* exactly when that one engine call returns, and with an error otherwise.
C4_ShortIsDirect ==
    \A r \in Requests :
        (request[r].probe = "returned" /\ request[r].duration <= MAX_DURATION * 1000)
        => /\ request[r].dispatched = <<InputPath>>
           /\ request[r].split_calls = <<>>
           /\ Responded(r) =>
                IF request[r].engine_log = <<[audio_path |-> InputPath, raised |-> FALSE]>>
                THEN request[r].response =
                        JSONResponse("number", request[r].duration, EngineText(InputPath))
                ELSE request[r].response.status \in {500, 503}

\* C4 witness: a file of exactly MAX_DURATION seconds answered with 200.
C4_Witness ==
    \E r \in Requests :
        /\ Responded(r)
        /\ request[r].probe = "returned"
        /\ request[r].duration = MAX_DURATION * 1000
        /\ request[r].response.status = 200

\* C5 (as claimed): once the prober has returned a duration > MAX_DURATION,
\* split_audio has been called exactly once, with MAX_DURATION, and the
\* dispatcher calls made so far are those for segments 0, 1, 2, ... in this
\* order (none on input.webm); a 200 response has called it for every segment.
C5_SegmentsDispatchedInIndexOrder ==
    \A r \in Requests :
        (request[r].probe = "returned" /\ request[r].duration > MAX_DURATION * 1000)
        => /\ request[r].split_calls = <<MAX_DURATION>>
           /\ request[r].dispatched = Ascending(Len(request[r].dispatched))
           /\ (Responded(r) /\ request[r].response.status = 200)
                 => Len(request[r].dispatched) = Len(request[r].segments)

\* C6 (as claimed): the text of a 200 response of a segmented request is
\* the engine's texts for segments 0..n-1, joined in this order by one space.
C6_TextJoinedInIndexOrder ==
    \A r \in Requests :
        (/\ Responded(r)
         /\ request[r].response.status = 200
         /\ request[r].split_calls # <<>>)
        => request[r].response.transcription =
              Join([k \in 1..Len(request[r].segments) |->
                        EngineText(SegmentPath(k - 1))])

C8_FallbackSegmentsInIndexOrder ==
    \A r \in Requests :
        (/\ request[r].probe = "exhausted"
         /\ request[r].engine_log # <<>>
         /\ Raised(r, 1))
        => /\ request[r].split_calls = <<MAX_DURATION>>
           /\ request[r].dispatched =
                 <<InputPath>> \o Ascending(Len(request[r].dispatched) - 1)
           /\ (Responded(r) /\ request[r].response.status = 200)
                 => /\ Len(request[r].dispatched) = Len(request[r].segments) + 1
                    /\ request[r].response.duration_tag = "unknown (segmented)"

\* C9 (as claimed): when the analysis process exits non-zero, the request
\* calls neither the dispatcher nor split_audio and ends with an error.
C9_ProbeFailureIsFatal ==
    \A r \in Requests :
        request[r].probe = "CalledProcessError"
        => /\ request[r].dispatched = <<>>
           /\ request[r].split_calls = <<>>
           /\ Responded(r)
           /\ request[r].response.status = 500

\* C10: an engine call on a segment that raises is the request's last
\* engine call and last dispatcher call, and the request ends at once with
\* an error that carries no text; and every 200 response of a segmented
\* request has one returned engine call per segment.
C10_SegmentFailureAborts ==
    \A r \in Requests :
        /\ \A k \in DOMAIN request[r].engine_log :
              (Raised(r, k) /\ request[r].engine_log[k].audio_path.file = "segment")
              => /\ k = Len(request[r].engine_log)
                 /\ request[r].dispatched[Len(request[r].dispatched)]
                       = request[r].engine_log[k].audio_path
                 /\ Responded(r)
                 /\ request[r].response.status = 500
                 /\ request[r].response.transcription = <<>>
        /\ (/\ Responded(r)
            /\ request[r].response.status = 200
            /\ request[r].split_calls # <<>>)
           => \A n \in DOMAIN request[r].segments :
                 Cardinality({k \in DOMAIN request[r].engine_log :
                     /\ request[r].engine_log[k].audio_path = request[r].segments[n]
                     /\ ~Raised(r, k)}) = 1

\* C10 witness: the engine raised on a segment that is not the last one.
C10_Witness ==
    \E r \in Requests :
        /\ Responded(r)
        /\ request[r].engine_log # <<>>
        /\ Raised(r, Len(request[r].engine_log))
        /\ request[r].segments # <<>>
        /\ request[r].engine_log[Len(request[r].engine_log)].audio_path
              = request[r].segments[1]
        /\ Len(request[r].segments) > 1

\* the waiting requests whose future has been set: each has been handed a
\* unit by release and has not yet resumed
Granted ==
    {k \in DOMAIN TRANSCRIPTION_SEMAPHORE.waiters :
        TRANSCRIPTION_SEMAPHORE.waiters[k].done}

\* every request has either not arrived or responded
Quiescent == \A r \in Requests : request[r].pc \in {"idle", "done"}

\* C11: a request that has responded, with a result or with an error raised
\* at any stage, has no temporary directory and no file left.
C11_WorkspaceRemoved ==
    \A r \in Requests :
        Responded(r) => /\ ~request[r].temp_dir
                        /\ request[r].files = {}

\* C11 witness: a request that failed on its second segment, after the
\* upload was saved and the segments were written.
C11_Witness ==
    \E r \in Requests :
        /\ Responded(r)
        /\ request[r].response.status = 500
        /\ request[r].workspaces = 1
        /\ Len(request[r].segments) > 1
        /\ Len(request[r].engine_log) = 2
        /\ Raised(r, 2)

\* C12: once created the semaphore accounts for exactly
\* MAX_CONCURRENT_TRANSCRIPTIONS units: the free ones, those of the engine
\* calls in progress and those handed to woken waiters; it exists whenever
\* requests are served; and when no request is in progress all units are
\* free and nobody waits.
C12_UnitsConserved ==
    /\ phase = "serving" => TRANSCRIPTION_SEMAPHORE.created
    /\ TRANSCRIPTION_SEMAPHORE.created =>
          /\ TRANSCRIPTION_SEMAPHORE.value >= 0
          /\ TRANSCRIPTION_SEMAPHORE.value + Cardinality(InEngine)
                + Cardinality(Granted) = MAX_CONCURRENT_TRANSCRIPTIONS
          /\ Quiescent => /\ TRANSCRIPTION_SEMAPHORE.value = MAX_CONCURRENT_TRANSCRIPTIONS
                          /\ TRANSCRIPTION_SEMAPHORE.waiters = <<>>

\* C12 witness: all requests have responded, one after an engine call that
\* raised and one after an engine call that returned.
C12_Witness ==
    /\ \A r \in Requests : Responded(r)
    /\ \E r \in Requests : request[r].engine_log # <<>> /\ Raised(r, Len(request[r].engine_log))
    /\ \E r \in Requests : request[r].engine_log # <<>> /\ ~Raised(r, Len(request[r].engine_log))
    /\ TRANSCRIPTION_SEMAPHORE.value = MAX_CONCURRENT_TRANSCRIPTIONS

\* C13 (as claimed): a 200 response of a request that called split_audio
\* was assembled from at least one segment.
C13_SplitYieldsSegments ==
    \A r \in Requests :
        (/\ Responded(r)
         /\ request[r].response.status = 200
         /\ request[r].split_calls # <<>>)
        => Len(request[r].segments) >= 1

\* C14: under SpecFair a request that has arrived stays arrived, and from
\* some moment on every request that has arrived has responded (none is
\* left waiting for the semaphore or for the engine); a request has produced
\* one response when it has responded and none before; and a request that
\* has responded does nothing more.
C14_EveryRequestResponds ==
    /\ [][\A r \in Requests : Arrived(r) => request'[r].pc # "idle"]_vars
    /\ <>[]Quiescent
    /\ [](\A r \in Requests :
            request[r].responses = IF Responded(r) THEN 1 ELSE 0)
    /\ [][\A r \in Requests : Responded(r) => request'[r] = request[r]]_vars

\* C14 witness: every request has arrived and responded with a
\* transcription, one of them assembled from several segments, and nobody
\* is left waiting on the semaphore.
C14_Witness ==
    /\ \A r \in Requests : /\ Responded(r)
                             /\ request[r].response.status = 200
                             /\ request[r].engine_log # <<>>
    /\ \E r \in Requests : Len(request[r].segments) > 1
    /\ TRANSCRIPTION_SEMAPHORE.waiters = <<>>

\* C15 (as claimed): every 200 response of POST /transcribe carries a
\* number as its duration.
C15_DurationIsNumeric ==
    \A r \in Requests :
        (Responded(r) /\ request[r].response.status = 200)
        => request[r].response.duration_tag = "number"

\* C16: the latest answer of GET /health is the 200 content with
\* model_status "loaded" exactly when the engine handle is set and the 503
\* content, the same keys plus "error", exactly when it is None; and it is
\* 503 exactly when a call of transcribe_with_gigaam made now would raise
\* its 503.
C16_HealthAgreesWithDispatcher ==
    health # NoHealth =>
        /\ (health = Healthy) <=> (model = "loaded")
        /\ (health = Unhealthy) <=> (model = "None")
        /\ DOMAIN Healthy.content = {"status", "model", "model_status"}
        /\ DOMAIN Unhealthy.content = DOMAIN Healthy.content \cup {"error"}
        /\ (health.status_code = 503)
              <=> (precondition(TRANSCRIPTION_SEMAPHORE).status = 503)
        /\ (health.status_code = 200)
              <=> (precondition(TRANSCRIPTION_SEMAPHORE).status = 0)

\* C16 witness: /health has answered 503 and a dispatcher call has been
\* refused with 503.
C16_Witness ==
    /\ health = Unhealthy
    /\ \E r \in Requests :
          /\ request[r].outcomes # <<>>
          /\ request[r].outcomes[1].status = 503

\* C17: a failed load with FAIL_WITHOUT_MODEL set ends startup without
\* serving, and no request ever arrives then; requests are served without
\* an engine only after a failed load with FAIL_WITHOUT_MODEL unset; in
\* that mode the semaphore exists with all its units free, no engine call
\* is made and every dispatcher call ends with 503; and no dispatcher call
\* ever ends with "Service not properly initialized".
C17_DegradedModeRefuses ==
    /\ [][lifespan(FALSE, TRUE) => phase' = "exited"]_vars
    /\ [][(phase = "startup" /\ phase' = "serving" /\ model' = "None")
            => lifespan(FALSE, FALSE)]_vars
    /\ [](phase = "exited" => \A r \in Requests : ~Arrived(r))
    /\ []((phase = "serving" /\ model = "None") =>
            /\ TRANSCRIPTION_SEMAPHORE = Semaphore(MAX_CONCURRENT_TRANSCRIPTIONS)
            /\ \A r \in Requests :
                  /\ request[r].engine_log = <<>>
                  /\ Len(request[r].outcomes) = Len(request[r].dispatched)
                  /\ \A k \in DOMAIN request[r].outcomes :
                        request[r].outcomes[k].status = 503)
    /\ [](\A r \in Requests :
            /\ \A k \in DOMAIN request[r].outcomes :
                  request[r].outcomes[k].detail # "Service not properly initialized"
            /\ request[r].response.detail # "Service not properly initialized")

\* C17 witness: served without an engine, a request whose duration was not
\* found has had both its direct attempt and a segment refused with 503.
C17_Witness ==
    /\ phase = "serving"
    /\ model = "None"
    /\ \E r \in Requests :
          /\ Responded(r)
          /\ Len(request[r].outcomes) = 2
          /\ request[r].response.status = 503

\* C18: a request has at most one call of transcribe_with_gigaam that has
\* not ended, the latest one, and it has one exactly while it waits for
\* the semaphore or for the engine; the calls end in the order they were
\* made; and the request holds or queues for at most one unit.
C18_OneCallAtATime ==
    \A r \in Requests :
        LET open == Len(request[r].dispatched) - Len(request[r].outcomes)
            queued == {k \in DOMAIN TRANSCRIPTION_SEMAPHORE.waiters :
                         TRANSCRIPTION_SEMAPHORE.waiters[k].request = r}
        IN  /\ open \in {0, 1}
            /\ (open = 1) <=> (request[r].pc \in {"waiting", "engine"})
            /\ \A k \in DOMAIN request[r].outcomes :
                  request[r].outcomes[k].audio_path = request[r].dispatched[k]
            /\ open = 1 =>
                  request[r].audio_path = request[r].dispatched[Len(request[r].dispatched)]
            /\ Cardinality(queued) + (IF request[r].pc = "engine" THEN 1 ELSE 0)
                  = open

\* C18 witness: the engine runs on the second segment of a request whose
\* first segment has been transcribed.
C18_Witness ==
    \E r \in Requests :
        /\ request[r].pc = "engine"
        /\ request[r].audio_path = SegmentPath(1)
        /\ Len(request[r].outcomes) = 1
        /\ request[r].outcomes[1].status = 200

\* all engine calls that are running: those a coroutine awaits and those
\* whose coroutine was cancelled
Executing == Cardinality(InEngine) + executor

\* C19 (as claimed): the unit of an engine call whose request was cancelled
\* stays taken until that call has ended: free units, units handed to
\* woken waiters and running engine calls, abandoned ones included, add up
\* to MAX_CONCURRENT_TRANSCRIPTIONS, so that no more than that many run.
C19_AbandonedCallKeepsUnit ==
    TRANSCRIPTION_SEMAPHORE.created =>
        /\ TRANSCRIPTION_SEMAPHORE.value + Cardinality(Granted) + Executing
              = MAX_CONCURRENT_TRANSCRIPTIONS
        /\ Executing <= MAX_CONCURRENT_TRANSCRIPTIONS

\* C20: the k-th engine call of a request is made by its k-th call of
\* transcribe_with_gigaam, on that call's file, so no call reaches the
\* engine twice; and a call whose engine call raised ended with
\* HTTPException(500, "Transcription error"), one whose engine call
\* returned ended with the text.
C20_NoRetry ==
    \A r \in Requests :
        /\ Len(request[r].engine_log) <= Len(request[r].outcomes)
        /\ Len(request[r].outcomes) <= Len(request[r].dispatched)
        /\ Len(request[r].engine_log) > 0 =>
              \A k \in 1..Len(request[r].engine_log) :
                 /\ k <= Len(request[r].outcomes)
                 /\ request[r].engine_log[k].audio_path = request[r].dispatched[k]
                 /\ request[r].outcomes[k] =
                       IF Raised(r, k)
                       THEN Outcome(request[r].dispatched[k], TranscriptionError)
                       ELSE Outcome(request[r].dispatched[k],
                                    [status |-> 200, detail |-> ""])

\* C20 witness: the engine raised on the whole file of a request of known
\* duration, which ended with the 500 of that one call.
C20_Witness ==
    \E r \in Requests :
        /\ Responded(r)
        /\ request[r].dispatched = <<InputPath>>
        /\ request[r].engine_log = <<[audio_path |-> InputPath, raised |-> TRUE]>>
        /\ request[r].response = TranscriptionError

\* the split_audio call number k of request r ran a process that exited
\* non-zero
SplitFailed(r, k) == request[r].split_runs[k].returncode # 0

\* C21: a split_audio call whose process exits non-zero, on the normal path
\* and on the fallback path alike, ends the request with
\* HTTPException(500, "Error splitting audio"); it is the request's only
\* split_audio call, and no segment file is passed to
\* transcribe_with_gigaam, whatever the process left behind.
C21_SplitFailureIsFatal ==
    \A r \in Requests :
        \A k \in DOMAIN request[r].split_runs :
            SplitFailed(r, k) =>
                /\ Responded(r)
                /\ request[r].response = HTTPException(500, "Error splitting audio")
                /\ Len(request[r].split_runs) = 1
                /\ \A d \in DOMAIN request[r].dispatched :
                      request[r].dispatched[d] = InputPath

\* C21 witness: one request of known duration and one of unknown duration
\* have both ended on a split whose process failed after writing segments.
C21_Witness ==
    \E r1, r2 \in Requests :
        /\ request[r1].probe = "returned"
        /\ request[r1].dispatched = <<>>
        /\ request[r2].probe = "exhausted"
        /\ request[r2].dispatched = <<InputPath>>
        /\ \A r \in {r1, r2} :
              /\ Len(request[r].split_runs) = 1
              /\ SplitFailed(r, 1)
              /\ request[r].split_runs[1].files > 0
              /\ request[r].response.status = 500

(***************************************************************************)
(* Properties of the prober.                                               *)
(***************************************************************************)
\* get_audio_duration has been called for request r
Probed(r) == request[r].probe # "none"

\* what each strategy does with the outputs of its command, in the order of
\* the code
Attempts(media) ==
    <<Method1(media), Method2(media), Method3(media),
      Method4(media), Method5(media), Method6(media)>>

\* float() rejected the value a strategy read
Unparseable(attempt) == attempt.kind = "raise" /\ attempt.origin = "float"

\* the prober ended with the ValueError the handler takes for "duration
\* unknown" although every command ran
DurationUnknown(r) == request[r].probe \in {"exhausted", "float"}

Max(S) == CHOOSE x \in S : \A y \in S : y <= x

\* the usable values among the fields of a sequence
UsableValues(fields) ==
    {fields[k].ms : k \in {j \in DOMAIN fields : UsableLine(fields[j])}}

\* C22 (as claimed): the strategies are tried in order and the first
\* usable value is returned; a value float() rejects counts as no value and
\* the next strategy is tried; and the prober ends with "duration unknown"
\* only when every strategy was tried and found nothing.
C22_StrategiesInOrder ==
    \A r \in Requests :
        Probed(r) =>
            LET a == Attempts(request[r].media)
            IN  /\ request[r].probe = "returned" =>
                      \E k \in DOMAIN a :
                          /\ a[k].kind = "return"
                          /\ request[r].duration = a[k].ms
                          /\ \A j \in 1..(k - 1) : a[j].kind = "nothing"
                /\ \A k \in DOMAIN a :
                      (/\ a[k].kind = "return"
                       /\ \A j \in 1..(k - 1) :
                             a[j].kind = "nothing" \/ Unparseable(a[j]))
                      => /\ request[r].probe = "returned"
                         /\ request[r].duration = a[k].ms
                /\ DurationUnknown(r) =>
                      \A k \in DOMAIN a : a[k].kind = "nothing"

\* every number one of the commands printed for the file
Reported(media) ==
    {media.format.stdout.ms, media.decode.banner.ms, media.mediainfo.stdout.ms,
     media.json.format_duration.ms}
    \cup {media.streams.lines[k].ms : k \in DOMAIN media.streams.lines}
    \cup {media.json.streams[k].ms : k \in DOMAIN media.json.streams}
    \cup {media.decode.times[k] : k \in DOMAIN media.decode.times}
    \cup {media.verbose.banners[k].ms : k \in DOMAIN media.verbose.banners}
    \cup {media.verbose.times[k] : k \in DOMAIN media.verbose.times}

\* C23: a duration the prober returns is greater than 0 and is a number
\* one of its commands printed; a prober that returned nothing leaves no
\* number behind, so the numeric duration of a 200 response is always such
\* a value.
C23_DurationPositive ==
    \A r \in Requests :
        /\ request[r].probe = "returned" =>
              /\ request[r].duration > 0
              /\ request[r].duration \in Reported(request[r].media)
        /\ (Probed(r) /\ request[r].probe # "returned") =>
              /\ request[r].duration = 0
              /\ request[r].response.duration_tag # "number"
        /\ (Responded(r) /\ request[r].response.duration_tag = "number") =>
              /\ request[r].probe = "returned"
              /\ request[r].response.duration = request[r].duration

\* C23 witness: the format duration was printed as 0, every other ffprobe
\* and ffmpeg strategy found nothing, mediainfo printed 17 seconds, and the
\* request was answered 200 with that duration.
C23_Witness ==
    \E r \in Requests :
        /\ Responded(r)
        /\ request[r].media.format.stdout = Num(0)
        /\ request[r].media.mediainfo.stdout = Num(17000)
        /\ request[r].response.status = 200
        /\ request[r].response.duration_tag = "number"
        /\ request[r].response.duration = 17000

\* C24 (as claimed): when the duration comes from the per-stream values
\* (the csv lines of strategy 2, the JSON streams of strategy 3), it is the
\* largest usable one, in whatever order the streams are listed.
C24_StreamMaximum ==
    \A r \in Requests :
        request[r].probe = "returned" =>
            LET media == request[r].media
                a == Attempts(media)
            IN  /\ (a[1].kind = "nothing" /\ a[2].kind = "return") =>
                      request[r].duration = Max(UsableValues(media.streams.lines))
                /\ (/\ a[1].kind = "nothing" /\ a[2].kind = "nothing"
                     /\ a[3].kind = "return"
                     /\ ~UsableLine(media.json.format_duration)) =>
                      request[r].duration = Max(UsableValues(media.json.streams))

\* C25 (as claimed): a duration taken from time= progress stamps, in the
\* decode pass of strategy 4 or in the verbose pass of strategy 5, is the
\* last stamp of that pass.
C25_LastProgressStamp ==
    \A r \in Requests :
        request[r].probe = "returned" =>
            LET media == request[r].media
                a == Attempts(media)
                Last(times) == times[Len(times)]
            IN  /\ (/\ \A j \in 1..3 : a[j].kind = "nothing"
                     /\ a[4].kind = "return"
                     /\ ~(media.decode.banner.matched /\ media.decode.banner.ms > 0)) =>
                      request[r].duration = Last(media.decode.times)
                /\ (/\ \A j \in 1..4 : a[j].kind = "nothing"
                     /\ a[5].kind = "return"
                     /\ \A k \in DOMAIN media.verbose.banners :
                           ~(/\ media.verbose.banners[k].matched
                             /\ media.verbose.banners[k].ms > 0)) =>
                      request[r].duration = Last(media.verbose.times)

\* how the handler records the end of get_audio_duration
ProbeEnding(result) ==
    IF result.kind = "return" THEN <<"returned", result.ms>>
    ELSE IF result.exception = "ValueError" THEN <<result.origin, 0>>
    ELSE <<result.exception, 0>>

\* the same file on a host where mediainfo is installed and prints nothing
MediainfoSilent(media) ==
    [media EXCEPT !.mediainfo = [installed |-> TRUE, returncode |-> 0,
                                 stdout |-> Empty]]

\* C26: on a host without mediainfo the prober ends as it does when
\* mediainfo runs and prints nothing: "duration unknown" when the five
\* strategies before it found nothing, and never a FileNotFoundError or a
\* command failure that the ffprobe and ffmpeg commands did not cause.
C26_MissingMediainfoIsSkipped ==
    \A r \in Requests :
        (Probed(r) /\ ~request[r].media.mediainfo.installed) =>
            LET media == request[r].media
                a == Attempts(media)
            IN  /\ <<request[r].probe, request[r].duration>>
                      = ProbeEnding(get_audio_duration(MediainfoSilent(media)))
                /\ (\A k \in 1..5 : a[k].kind = "nothing") =>
                      request[r].probe = "exhausted"
                /\ (\A k \in 1..5 : a[k].kind # "raise") =>
                      /\ request[r].probe \notin {"FileNotFoundError", "CalledProcessError"}
                      /\ request[r].response # HTTPException(500, "Processing error")

\* C26 witness: no strategy found a duration on a host without mediainfo;
\* the handler took the prober's ValueError for "duration unknown" and the
\* direct attempt was answered 200.
C26_Witness ==
    \E r \in Requests :
        /\ Responded(r)
        /\ ~request[r].media.mediainfo.installed
        /\ \A k \in 1..5 : Attempts(request[r].media)[k].kind = "nothing"
        /\ request[r].probe = "exhausted"
        /\ request[r].response.status = 200
        /\ request[r].response.duration_tag = "unknown"

\* C27: a step in which a request calls transcribe_with_gigaam while the
\* engine handle is None or the semaphore has not been created leaves the
\* semaphore as it was, value and queue; every call of the step ends at once
\* with the 503 or the 500 of the precondition, and the request is neither
\* queued on the semaphore nor in an engine call afterwards.
C27_FailedPreconditionLeavesGate ==
    [][\A r \in Requests :
          (/\ Len(request'[r].dispatched) > Len(request[r].dispatched)
           /\ (model = "None" \/ ~TRANSCRIPTION_SEMAPHORE.created))
          => /\ TRANSCRIPTION_SEMAPHORE' = TRANSCRIPTION_SEMAPHORE
             /\ request'[r].pc \notin {"waiting", "engine"}
             /\ request'[r].engine_log = request[r].engine_log
             /\ Len(request'[r].outcomes) = Len(request'[r].dispatched)
             /\ \A k \in (Len(request[r].outcomes) + 1)..Len(request'[r].outcomes) :
                   request'[r].outcomes[k].detail \in
                      {"Transcription model not available",
                       "Service not properly initialized"}]_vars

\* C27 witness: served without an engine, the call for the first segment
\* of a request of known duration was refused with 503 while every unit of
\* the semaphore is free and nobody is queued.
C27_Witness ==
    \E r \in Requests :
        /\ model = "None"
        /\ request[r].probe = "returned"
        /\ request[r].dispatched = <<SegmentPath(0)>>
        /\ request[r].outcomes =
              <<Outcome(SegmentPath(0),
                        HTTPException(503, "Transcription model not available"))>>
        /\ TRANSCRIPTION_SEMAPHORE = Semaphore(MAX_CONCURRENT_TRANSCRIPTIONS)

====
